---- MODULE Spec2Model ----
(***************************************************************************)
(* A model of labhub's webhook handling (src/src/github.rs, service.rs,    *)
(* errors.rs): the event dispatcher, the repo cache REPOS behind its       *)
(* mutex, the PR-mirror handlers driving the five git worker operations,   *)
(* the command relay, and the pipeline search.                             *)
(***************************************************************************)
EXTENDS Integers, Sequences, FiniteSets, TLC

(***************************************************************************)
(* Bounds of the model.                                                    *)
(***************************************************************************)
\* webhook deliveries handled in one behaviour
MaxEvents == 3
\* runtime worker threads that run github_event concurrently
Threads == {"t1", "t2"}
NoThread == "none"

(***************************************************************************)
(* Payload projections (spec section 6).  A full name "org/repo" is kept   *)
(* as the tuple of its '/'-separated parts, so that split('/') is Len.     *)
(***************************************************************************)
RepoA == [full_name |-> <<"org", "a">>, ssh_url |-> "git@hub:org/a.git"]
RepoB == [full_name |-> <<"org", "b">>, ssh_url |-> "git@hub:org/b.git"]
BaseRepos == {RepoA, RepoB}
Urls == {r.ssh_url : r \in BaseRepos}
PrNumbers == {7}
PrActions == {"opened", "closed", "labeled"}

\* pull_request.head.repo of a PR opened from a fork of base
ForkOf(base) ==
    [full_name |-> <<"dev", base.full_name[2]>>,
     ssh_url |-> <<"git@hub:dev/", base.full_name[2], ".git">>,
     fork |-> TRUE]

\* pull_request.head.repo of a PR opened from a branch of base itself
SameRepo(base) ==
    [full_name |-> base.full_name, ssh_url |-> base.ssh_url, fork |-> FALSE]

\* decoded github::PullRequest payloads
PullRequests ==
    { [action |-> a,
       pull_request |->
           [number |-> n,
            head |-> [ref_key |-> "feature",
                      repo |-> IF f THEN ForkOf(b) ELSE SameRepo(b)],
            base |-> [repo |-> [full_name |-> b.full_name]]],
       repository |-> b] :
         a \in PrActions, n \in PrNumbers,
         b \in BaseRepos, f \in BOOLEAN }

\* comment bodies: the name mentioned by a leading "@name" of the trimmed
\* text ("" when it has none) and the whitespace-separated tokens after it
BotName == "bot"
CommentBodies ==
    { [at |-> "bot", args |-> <<"retry">>],
      [at |-> "bot", args |-> <<>>],
      [at |-> "bot", args |-> <<"retry", "now">>],
      [at |-> "someone", args |-> <<"retry">>],
      [at |-> "bot", args |-> <<"frobnicate">>] }

IssueComment(isPr, b, fn) ==
    [action |-> "created",
     issue |-> [number |-> 7, pull_request |-> isPr],
     comment |-> [body |-> b],
     repository |-> [full_name |-> fn]]

\* decoded github::IssueComment payloads: on a PR or on a plain issue, and
\* with a repository name of two parts or not
IssueComments ==
    { IssueComment(TRUE, b, fn) :
          b \in CommentBodies, fn \in {<<"org", "a">>, <<"orga">>} }
    \cup { IssueComment(FALSE, [at |-> "bot", args |-> <<"retry">>], <<"org", "a">>) }

PipelineIds == {5, 7}

(***************************************************************************)
(* Lab's pipeline list as find_pipeline_id sees it.  An Option is a        *)
(* sequence of length 0 or 1.                                              *)
(***************************************************************************)
None == <<>>
Some(v) == <<v>>
is_some(o) == Len(o) = 1
unwrap(o) == o[1]

\* pages of the pipeline list that Lab holds
MaxPages == 2
\* per_page of every get_pipelines request, and the length the loop tests
PerPage == 100

TargetSha == "abc"
\* pipeline records: of the commit looked for, of another commit, and
\* records without an id or without a sha
PipelineRecords ==
    { [id |-> Some(7), sha |-> Some("abc")],
      [id |-> Some(5), sha |-> Some("abc")],
      [id |-> Some(8), sha |-> Some("def")],
      [id |-> None, sha |-> Some("abc")],
      [id |-> Some(9), sha |-> None] }
OtherPipeline == [id |-> Some(8), sha |-> Some("def")]

\* the records a page starts with: none, any one record, or any record
\* followed by a different one of the commit looked for
PageHeads ==
    {<<>>}
    \cup { <<r>> : r \in PipelineRecords }
    \cup { h \in [1..2 -> PipelineRecords] :
               h[2].id # None /\ h[2].sha = Some(TargetSha) /\ h[2] # h[1] }

\* what Lab answers to one get_pipelines request: an error, or a page that
\* starts with head, followed by pipelines of another commit up to len
\* records: a short page (len = Len(head)) or a full one (len = PerPage)
LabResponses ==
    { [ok |-> FALSE, head |-> <<>>, len |-> 0] }
    \cup { [ok |-> TRUE, head |-> h, len |-> Len(h)] : h \in PageHeads }
    \cup { [ok |-> TRUE, head |-> h, len |-> PerPage] : h \in PageHeads }
EmptyPage == [ok |-> TRUE, head |-> <<>>, len |-> 0]

\* the Vec<Pipeline> of a page
Pipelines(resp) ==
    resp.head \o [i \in 1..(resp.len - Len(resp.head)) |-> OtherPipeline]

\* a webhook delivery: the X-GitHub-Event header and the body, which either
\* decodes into the payload of its type or does not
Undecodable == [decodes |-> FALSE]
Deliveries ==
    { [event_type |-> "pull_request", body |-> [decodes |-> TRUE, pr |-> pr]] :
          pr \in PullRequests }
    \cup { [event_type |-> "issue_comment", body |-> [decodes |-> TRUE, ic |-> ic]] :
          ic \in IssueComments }
    \cup { [event_type |-> "push", body |-> [decodes |-> TRUE]] }
    \cup { [event_type |-> "ping", body |-> [decodes |-> TRUE]] }
    \cup { [event_type |-> t, body |-> Undecodable] :
          t \in {"pull_request", "issue_comment", "push", "ping"} }

NoEvent == [event_type |-> "none", body |-> Undecodable]

\* configurations (spec section 6: features, enabled_actions, enabled_commands)
Configs ==
    { [features |-> f, enabled_actions |-> ac[1], enabled_commands |-> ac[2],
       gitlab |-> [hostname |-> None]] :
          f \in SUBSET {"ExternalPr", "Commands"},
          ac \in { <<{"opened", "closed"}, {"Retry"}>>, <<{"opened"}, {}>> } }

\* the configured hub_to_lab maps: from a Hub full name to a Lab full name
NameMapKeys == {<<"org", "a">>, <<"grp", "b">>}
NameMapValues == {<<"grp", "b">>, <<"grp", "c">>}
NameMaps == UNION { [d -> NameMapValues] : d \in SUBSET NameMapKeys }
DefaultHubToLab == (<<"org", "a">> :> <<"grp", "b">>)

VARIABLES
    config,      \* config::CONFIG
    hub_to_lab,  \* config::HUB_TO_LAB: the HashMap behind its mutex
    hub_to_lab_lock, \* the thread holding the HUB_TO_LAB mutex, or NoThread
    names,       \* per thread: get_gitlab_repo_name calls returned in its handler
    REPOS,       \* the HashMap behind the mutex: url -> temp dir id, 0 = no entry
    repos_lock,  \* the thread holding the REPOS mutex, or NoThread
    next_dir,    \* the temporary directory the next tempdir() call creates
    clones,      \* url -> number of clones performed of that url
    handled,     \* webhook deliveries received so far
    pc,          \* per thread: where its handler stands
    ev,          \* per thread: the delivery it is handling
    clone_res,   \* per thread: what clone_repo returned for this delivery
    calls,       \* per thread: the worker / API calls made for this delivery
    result,      \* per thread: what the mirror handler or the relay returned
    response,    \* per thread: what handle_event_body returned
    pipeline_id, \* per thread: handle_retry_command's pipeline_id, 0 = not set
    lab,         \* find_pipeline_id: page number -> Lab's answer
    lab_rest,    \* find_pipeline_id: Lab's answer for every later page
    fp_pc,       \* find_pipeline_id: "off", "loop" or "done"
    page,        \* find_pipeline_id: page
    result_len,  \* find_pipeline_id: result_len
    requested,   \* find_pipeline_id: the pages requested so far, in order
    per_page,    \* find_pipeline_id: the per_page of each request so far
    fp_result,   \* find_pipeline_id: what it returned
    remotes,     \* working repository: remote name -> its configuration
    refs,        \* working repository: reference name -> object id
    lab_refs,    \* Lab: repository url -> (reference name -> object id)
    fork_heads,  \* Hub: fork url -> (branch -> object id)
    git_pc,      \* mirror handler on the working repository: where it stands
    git_ev,      \* mirror handler: the pull_request payload it handles
    git_handled, \* mirror handler: payloads handled so far
    git_calls,   \* mirror handler: the worker operations of this payload
    lab_before,  \* Lab's references when this payload's handling began
    hist         \* what the last two payloads' handlers did and returned

shared == <<REPOS, repos_lock, next_dir, clones>>
find_vars == <<lab, lab_rest, fp_pc, page, result_len, requested, per_page, fp_result>>
lock_vars == <<hub_to_lab_lock, names>>
server_vars == <<config, hub_to_lab, lock_vars, shared, handled, pc, ev, clone_res, calls, result,
                 response, pipeline_id>>
git_vars == <<remotes, refs, lab_refs, fork_heads, git_pc, git_ev, git_handled,
              git_calls, lab_before, hist>>
vars == <<server_vars, find_vars, git_vars>>

(***************************************************************************)
(* config.rs is not part of the sources; these read the configuration as   *)
(* spec section 6 describes it.                                            *)
(***************************************************************************)
feature_enabled(f) == f \in config.features
action_enabled(a) == a \in config.enabled_actions
command_enabled(c) == c \in config.enabled_commands

(***************************************************************************)
(* github.rs: the name mapper                                              *)
(***************************************************************************)
contains_key(map, key) == key \in DOMAIN map
get(map, key) == map[key]

get_gitlab_repo_name_following(github_repo_full_name) ==
    LET once == IF contains_key(hub_to_lab, github_repo_full_name)
                  THEN get(hub_to_lab, github_repo_full_name)
                  ELSE github_repo_full_name IN
    IF contains_key(hub_to_lab, once) THEN get(hub_to_lab, once) ELSE once
get_gitlab_repo_name(github_repo_full_name) ==
    IF contains_key(hub_to_lab, github_repo_full_name)
      THEN get(hub_to_lab, github_repo_full_name)
      ELSE github_repo_full_name

(***************************************************************************)
(* github.rs: the PR mirror                                                *)
(***************************************************************************)
PrHandle(pr) ==
    [gitref |-> pr.pull_request.head.ref_key,
     pr_number |-> pr.pull_request.number,
     github_clone_url |-> pr.pull_request.head.repo.ssh_url,
     github_remote |-> <<"github-", ToString(pr.pull_request.number)>>,
     gitlab_remote |-> <<"gitlab">>,
     base_full_name |-> pr.pull_request.base.repo.full_name,
     head_full_name |-> pr.pull_request.head.repo.full_name]

is_fork_always(pr) == TRUE
is_fork(pr) == pr.pull_request.head.repo.fork

\* HashMap::entry(key).or_insert(value): the value already there wins
or_insert_replace(map, key, value) == [map EXCEPT ![key] = value]
or_insert(map, key, value) ==
    IF map[key] # 0 THEN map ELSE [map EXCEPT ![key] = value]

\* the ? operator: an Err leaves the function at once
propagates_never(ok) == FALSE
propagates(ok) == ~ok

\* Mutex::lock() returns once no thread holds the mutex
mutex_per_key(t) ==
    \A o \in Threads :
        repos_lock = o => ev[o].body.pr.repository.ssh_url
                              # ev[t].body.pr.repository.ssh_url
mutex_never_blocks(t) == TRUE
mutex_free(t) == repos_lock = NoThread

\* handle_pr's match on the action
mirror_handler_always_updated(pr) == "handle_pr_updated"
mirror_handler(pr) ==
    IF pr.action = "closed" THEN "handle_pr_closed" ELSE "handle_pr_updated"

\* the worker operations of the two handlers, in the order of their calls
handle_pr_updated_push_unfetched ==
    <<"add_remotes", "create_ref_for_pr", "push_pr_ref", "fetch_github_remote">>
handle_pr_updated_with_repo ==
    <<"add_remotes", "fetch_github_remote", "create_ref_for_pr", "push_pr_ref">>
handle_pr_closed_refetching ==
    <<"add_remotes", "fetch_github_remote", "delete_pr_ref">>
handle_pr_closed_with_repo ==
    <<"add_remotes", "delete_pr_ref">>

HandlerBody(pr) ==
    IF mirror_handler(pr) = "handle_pr_closed"
      THEN handle_pr_closed_with_repo
      ELSE handle_pr_updated_with_repo

\* the statement after the call of op in body, "return" after the last
AfterCall(body, op) ==
    LET i == CHOOSE k \in 1..Len(body) : body[k] = op IN
    IF i = Len(body) THEN "return" ELSE body[i + 1]

\* handle_pr: what it returns for the mirror handler's result
handle_pr_passes_error(res) == res
handle_pr_returns(res) == "Ok"

ThePr(t) == ev[t].body.pr
TheUrl(t) == ThePr(t).repository.ssh_url
Call(op, t, ok) ==
    [op |-> op, handle |-> PrHandle(ThePr(t)), repo |-> REPOS[TheUrl(t)],
     ret |-> IF ok THEN "Ok" ELSE "Err"]

Ok(msg) == [status |-> "Ok", message |-> msg]
BadRequest == [status |-> "BadRequest", message |-> "error"]
NoResponse == [status |-> "None", message |-> ""]
ResponseError == [status |-> "InternalServerError", message |-> "error"]

\* errors.rs, From<serde_json::error::Error> for RequestErrorResult
from_serde_json_error_internal == ResponseError
from_serde_json_error == BadRequest

InitServer ==
    /\ hub_to_lab_lock = NoThread
    /\ names = [t \in Threads |-> 0]
    /\ REPOS = [u \in Urls |-> 0]
    /\ repos_lock = NoThread
    /\ next_dir = 1
    /\ clones = [u \in Urls |-> 0]
    /\ handled = 0
    /\ pc = [t \in Threads |-> "idle"]
    /\ ev = [t \in Threads |-> NoEvent]
    /\ clone_res = [t \in Threads |-> "None"]
    /\ calls = [t \in Threads |-> <<>>]
    /\ result = [t \in Threads |-> "None"]
    /\ response = [t \in Threads |-> NoResponse]
    /\ pipeline_id = [t \in Threads |-> 0]

InitFindOff ==
    /\ lab = [p \in 1..MaxPages |-> EmptyPage]
    /\ lab_rest = EmptyPage
    /\ fp_pc = "off"
    /\ page = 1
    /\ result_len = PerPage
    /\ requested = <<>>
    /\ per_page = <<>>
    /\ fp_result = [kind |-> "None", id |-> 0]

\* no mirror handler runs on a modelled working repository
NoPr == [action |-> "none"]
InitGitOff ==
    /\ remotes = <<>>
    /\ refs = <<>>
    /\ lab_refs = <<>>
    /\ fork_heads = <<>>
    /\ git_pc = "off"
    /\ git_ev = NoPr
    /\ git_handled = 0
    /\ git_calls = <<>>
    /\ lab_before = <<>>
    /\ hist = <<>>

Init ==
    /\ config \in Configs
    /\ hub_to_lab = DefaultHubToLab
    /\ InitServer
    /\ InitFindOff
    /\ InitGitOff

\* service.rs github_event: a delivery whose signature checked out reaches
\* handle_event_body on some worker thread
github_event(t, e) ==
    /\ pc[t] \in {"idle", "done"}
    /\ handled < MaxEvents
    /\ handled' = handled + 1
    /\ ev' = [ev EXCEPT ![t] = e]
    /\ pc' = [pc EXCEPT ![t] = "handle_event_body"]
    /\ clone_res' = [clone_res EXCEPT ![t] = "None"]
    /\ calls' = [calls EXCEPT ![t] = <<>>]
    /\ result' = [result EXCEPT ![t] = "None"]
    /\ response' = [response EXCEPT ![t] = NoResponse]
    /\ pipeline_id' = [pipeline_id EXCEPT ![t] = 0]
    /\ UNCHANGED <<config, hub_to_lab, lock_vars, shared, find_vars, git_vars>>

Respond(t, r) ==
    /\ response' = [response EXCEPT ![t] = r]
    /\ pc' = [pc EXCEPT ![t] = "done"]

\* handle_event_body, "push" arm
handle_push(t) ==
    /\ pc[t] = "handle_event_body"
    /\ ev[t].event_type = "push"
    /\ IF ev[t].body.decodes
         THEN Respond(t, Ok("Push received"))
         ELSE Respond(t, from_serde_json_error)
    /\ UNCHANGED <<config, hub_to_lab, lock_vars, shared, handled, ev, clone_res, calls, result,
                   pipeline_id, find_vars, git_vars>>

\* handle_event_body, "pull_request" arm, with handle_pr up to the call of
\* the mirror handler
handle_pull_request(t) ==
    /\ pc[t] = "handle_event_body"
    /\ ev[t].event_type = "pull_request"
    /\ IF ~feature_enabled("ExternalPr")
         THEN Respond(t, Ok("Thanks buddy bro"))
         ELSE IF ~ev[t].body.decodes
         THEN Respond(t, from_serde_json_error)
         ELSE IF ~action_enabled(ThePr(t).action)
         THEN Respond(t, Ok("Thanks buddy bro"))
         ELSE IF ~is_fork(ThePr(t))
         THEN Respond(t, Ok("Thanks buddy bro"))
         ELSE /\ pc' = [pc EXCEPT ![t] = mirror_handler(ThePr(t))]
              /\ UNCHANGED response
    /\ UNCHANGED <<config, hub_to_lab, lock_vars, shared, handled, ev, clone_res, calls, result,
                   pipeline_id, find_vars, git_vars>>

\* handle_event_body, any other event type
handle_unhandled(t) ==
    /\ pc[t] = "handle_event_body"
    /\ ev[t].event_type \notin {"push", "pull_request", "issue_comment"}
    /\ Respond(t, Ok("Unhandled event_type"))
    /\ UNCHANGED <<config, hub_to_lab, lock_vars, shared, handled, ev, clone_res, calls, result,
                   pipeline_id, find_vars, git_vars>>

\* handle_pr_closed / handle_pr_updated: let mut repos = REPOS.lock()
lock_repos(t) ==
    /\ pc[t] \in {"handle_pr_closed", "handle_pr_updated"}
    /\ mutex_free(t)
    /\ repos_lock' = t
    /\ pc' = [pc EXCEPT ![t] = "entry"]
    /\ UNCHANGED <<config, hub_to_lab, lock_vars, REPOS, next_dir, clones, handled, ev, clone_res,
                   calls, result, response, pipeline_id, find_vars, git_vars>>

\* the mirror handler returns: its MutexGuard is dropped, and handle_pr
\* is left to log the result
Return(t, r) ==
    /\ result' = [result EXCEPT ![t] = r]
    /\ repos_lock' = IF repos_lock = t THEN NoThread ELSE repos_lock
    /\ pc' = [pc EXCEPT ![t] = "handle_pr"]

\* .entry(url).or_insert(clone_repo(url)?): the argument is evaluated
\* before or_insert is called, whatever the map holds
entry_or_insert(t) ==
    /\ pc[t] = "entry"
    /\ \E cloned \in BOOLEAN :
         /\ clone_res' = [clone_res EXCEPT ![t] = IF cloned THEN "Ok" ELSE "Err"]
         /\ clones' = [clones EXCEPT ![TheUrl(t)] = IF cloned THEN @ + 1 ELSE @]
         /\ next_dir' = IF cloned THEN next_dir + 1 ELSE next_dir
         /\ IF propagates(cloned)
              THEN /\ Return(t, "Err")
                   /\ UNCHANGED REPOS
              ELSE /\ REPOS' = or_insert(REPOS, TheUrl(t), next_dir)
                   /\ pc' = [pc EXCEPT ![t] = HandlerBody(ThePr(t))[1]]
                   /\ UNCHANGED <<repos_lock, result>>
    /\ UNCHANGED <<config, hub_to_lab, lock_vars, handled, ev, calls, response,
                   pipeline_id, find_vars, git_vars>>

\* one git worker operation of a mirror handler: it is called on the cached
\* repository, and its Err leaves the handler
WorkerOp(t, op) ==
    /\ \E ok \in BOOLEAN :
         /\ calls' = [calls EXCEPT ![t] = Append(@, Call(op, t, ok))]
         /\ IF propagates(ok)
              THEN Return(t, "Err")
              ELSE IF AfterCall(HandlerBody(ThePr(t)), op) = "return"
              THEN Return(t, "Ok")
              ELSE /\ pc' = [pc EXCEPT ![t] = AfterCall(HandlerBody(ThePr(t)), op)]
                   /\ UNCHANGED <<repos_lock, result>>
    /\ UNCHANGED <<config, hub_to_lab, lock_vars, REPOS, next_dir, clones, handled, ev, clone_res,
                   response, pipeline_id, find_vars, git_vars>>

add_remotes(t) ==
    /\ pc[t] = "add_remotes"
    /\ WorkerOp(t, "add_remotes")

fetch_github_remote(t) ==
    /\ pc[t] = "fetch_github_remote"
    /\ WorkerOp(t, "fetch_github_remote")

create_ref_for_pr(t) ==
    /\ pc[t] = "create_ref_for_pr"
    /\ WorkerOp(t, "create_ref_for_pr")

push_pr_ref(t) ==
    /\ pc[t] = "push_pr_ref"
    /\ WorkerOp(t, "push_pr_ref")

delete_pr_ref(t) ==
    /\ pc[t] = "delete_pr_ref"
    /\ WorkerOp(t, "delete_pr_ref")

\* handle_pr logs the handler's result and returns; handle_event_body
\* applies ? to what handle_pr returned and acknowledges
handle_pr(t) ==
    /\ pc[t] = "handle_pr"
    /\ IF propagates(handle_pr_returns(result[t]) = "Ok")
         THEN Respond(t, BadRequest)
         ELSE Respond(t, Ok("Thanks buddy bro"))
    /\ UNCHANGED <<config, hub_to_lab, lock_vars, shared, handled, ev, clone_res, calls, result,
                   pipeline_id, find_vars, git_vars>>

(***************************************************************************)
(* The command relay.  commands.rs is not part of the sources: parse_body  *)
(* is modelled from spec section 4.D.                                      *)
(***************************************************************************)
parse_body(body, username) ==
    IF body.at # username THEN "BadUsername"
    ELSE IF Len(body.args) = 0 THEN "InvalidFormat"
    ELSE IF Len(body.args) > 1 THEN "InvalidLength"
    ELSE IF body.args[1] = "retry" THEN "Retry"
    ELSE "UnknownCommand"

is_from_pr_always(ic) == TRUE
is_from_pr(ic) == ic.issue.pull_request

TheIc(t) == ev[t].body.ic
\* a call of github_client or gitlab_client: the repository or project it
\* addresses, its argument, and what it returned
ApiCall(op, project, arg, ok, value) ==
    [op |-> op, project |-> project, arg |-> arg,
     ret |-> IF ok THEN "Ok" ELSE "Err", value |-> value]

\* gitlab_client::make_ext_url (spec section 4.C)
make_ext_url(project) == <<"https://gitlab.com/">> \o project

\* the statements of handle_retry_command that can fail, in their order
handle_retry_command_retry_first ==
    <<"get_sha", "retry_pipeline", "find_pipeline_id", "confirm">>
handle_retry_command ==
    <<"get_sha", "find_pipeline_id", "retry_pipeline", "confirm">>

\* handle_retry_command: let sha = get_sha(..)?
sha_of(t) ==
    LET pulls == SelectSeq(calls[t], LAMBDA c : c.op = "get_pull") IN
    pulls[Len(pulls)].value
\* handle_retry_command: let project = get_gitlab_repo_name(&repo_full_name)
project(t) == get_gitlab_repo_name(TheIc(t).repository.full_name)
\* the project handed to find_pipeline_id
search_project(t) == get_gitlab_repo_name(project(t))
\* format!("Sent **retry** command for pipeline [**{}**]({}/pipelines/{}) ..")
comment_body(t) ==
    <<"Sent retry command for pipeline", pipeline_id[t],
      make_ext_url(project(t)), "/pipelines/", pipeline_id[t],
      make_ext_url(project(t))>>
UnknownCommandBody_addressed == <<"@", "bot", "Sorry,", "what does that mean?">>
UnknownCommandBody == <<"Sorry, but I don't know what that command means.">>

\* handle_pr_ic: the arm its match takes for what parse_body returned
handle_pr_ic_match_silent(command_res) ==
    IF command_res = "Retry" THEN "command" ELSE "error"
handle_pr_ic_match(command_res) ==
    IF command_res = "UnknownCommand" THEN "reply"
    ELSE IF command_res = "Retry" THEN "command"
    ELSE "error"

\* handle_pr_ic returns; handle_ic is left to log the result
ReturnIc(t, r) ==
    /\ result' = [result EXCEPT ![t] = r]
    /\ pc' = [pc EXCEPT ![t] = "handle_ic"]

\* a statement of handle_retry_command returned: ? leaves on Err, else the
\* next statement runs
RetryStep(t, op, ok) ==
    IF propagates(ok)
      THEN ReturnIc(t, "Err")
      ELSE /\ pc' = [pc EXCEPT ![t] = AfterCall(handle_retry_command, op)]
           /\ UNCHANGED result

\* handle_event_body, "issue_comment" arm, with handle_ic and handle_pr_ic
\* up to the first call that leaves the process
handle_issue_comment(t) ==
    /\ pc[t] = "handle_event_body"
    /\ ev[t].event_type = "issue_comment"
    /\ IF ~feature_enabled("Commands")
         THEN Respond(t, Ok("Issue comment received")) /\ UNCHANGED result
         ELSE IF ~ev[t].body.decodes
         THEN Respond(t, from_serde_json_error) /\ UNCHANGED result
         ELSE IF ~is_from_pr(TheIc(t))
         THEN Respond(t, Ok("Issue comment received")) /\ UNCHANGED result
         ELSE LET command_res == parse_body(TheIc(t).comment.body, BotName) IN
              /\ UNCHANGED response
              /\ IF handle_pr_ic_match(command_res) = "reply"
                   THEN /\ pc' = [pc EXCEPT ![t] = "reply_unknown"]
                        /\ UNCHANGED result
                   ELSE IF handle_pr_ic_match(command_res) = "command"
                   THEN IF ~command_enabled("Retry")
                          THEN ReturnIc(t, "Ok")
                          ELSE /\ pc' = [pc EXCEPT ![t] = handle_retry_command[1]]
                               /\ UNCHANGED result
                   ELSE ReturnIc(t, "Err")
    /\ UNCHANGED <<config, hub_to_lab, lock_vars, shared, handled, ev, clone_res, calls,
                   pipeline_id, find_vars, git_vars>>

\* write_issue_comment: the repository name must split into two parts, then
\* create_issue_comment is called
write_issue_comment(t, body) ==
    /\ IF Len(TheIc(t).repository.full_name) # 2
         THEN /\ ReturnIc(t, "Err")
              /\ UNCHANGED calls
         ELSE \E ok \in BOOLEAN :
                /\ calls' = [calls EXCEPT ![t] =
                       Append(@, ApiCall("create_issue_comment",
                                         TheIc(t).repository.full_name,
                                         body, ok, 0))]
                /\ ReturnIc(t, IF propagates(ok) THEN "Err" ELSE "Ok")
    /\ UNCHANGED <<config, hub_to_lab, lock_vars, shared, handled, ev, clone_res, response,
                   pipeline_id, find_vars, git_vars>>

\* handle_pr_ic, UnknownCommand arm
reply_unknown(t) ==
    /\ pc[t] = "reply_unknown"
    /\ write_issue_comment(t, UnknownCommandBody)

\* handle_retry_command: get_sha
get_sha(t) ==
    /\ pc[t] = "get_sha"
    /\ IF Len(TheIc(t).repository.full_name) # 2
         THEN /\ ReturnIc(t, "Err")
              /\ UNCHANGED calls
         ELSE \E ok \in BOOLEAN :
                /\ calls' = [calls EXCEPT ![t] =
                       Append(@, ApiCall("get_pull",
                                         TheIc(t).repository.full_name,
                                         TheIc(t).issue.number, ok, TargetSha))]
                /\ RetryStep(t, "get_sha", ok)
    /\ UNCHANGED <<config, hub_to_lab, lock_vars, shared, handled, ev, clone_res, response,
                   pipeline_id, find_vars, git_vars>>

\* handle_retry_command: the pipeline search, by its outcome
search_pipeline(t) ==
    /\ pc[t] = "find_pipeline_id"
    /\ \E found \in PipelineIds \cup {0} :
         /\ calls' = [calls EXCEPT ![t] =
                Append(@, ApiCall("get_pipelines", search_project(t), sha_of(t),
                                  found # 0, found))]
         /\ pipeline_id' = [pipeline_id EXCEPT ![t] =
                               IF propagates(found # 0) THEN @ ELSE found]
         /\ RetryStep(t, "find_pipeline_id", found # 0)
    /\ UNCHANGED <<config, hub_to_lab, lock_vars, shared, handled, ev, clone_res, response,
                   find_vars, git_vars>>

\* handle_retry_command: gitlab_client::retry_pipeline
retry_pipeline(t) ==
    /\ pc[t] = "retry_pipeline"
    /\ \E ok \in BOOLEAN :
         /\ calls' = [calls EXCEPT ![t] =
                Append(@, ApiCall("retry_pipeline", project(t), pipeline_id[t],
                                  ok, 0))]
         /\ RetryStep(t, "retry_pipeline", ok)
    /\ UNCHANGED <<config, hub_to_lab, lock_vars, shared, handled, ev, clone_res, response,
                   pipeline_id, find_vars, git_vars>>

\* handle_retry_command: the confirmation comment
confirm(t) ==
    /\ pc[t] = "confirm"
    /\ write_issue_comment(t, comment_body(t))

\* handle_ic logs what handle_pr_ic returned; handle_event_body acknowledges
handle_ic(t) ==
    /\ pc[t] = "handle_ic"
    /\ Respond(t, Ok("Issue comment received"))
    /\ UNCHANGED <<config, hub_to_lab, lock_vars, shared, handled, ev, clone_res, calls,
                   result, pipeline_id, find_vars, git_vars>>

Next ==
    \/ \E t \in Threads, e \in Deliveries : github_event(t, e)
    \/ \E t \in Threads : handle_push(t)
    \/ \E t \in Threads : handle_pull_request(t)
    \/ \E t \in Threads : handle_unhandled(t)
    \/ \E t \in Threads : lock_repos(t)
    \/ \E t \in Threads : entry_or_insert(t)
    \/ \E t \in Threads : add_remotes(t)
    \/ \E t \in Threads : fetch_github_remote(t)
    \/ \E t \in Threads : create_ref_for_pr(t)
    \/ \E t \in Threads : push_pr_ref(t)
    \/ \E t \in Threads : delete_pr_ref(t)
    \/ \E t \in Threads : handle_pr(t)
    \/ \E t \in Threads : handle_issue_comment(t)
    \/ \E t \in Threads : reply_unknown(t)
    \/ \E t \in Threads : get_sha(t)
    \/ \E t \in Threads : search_pipeline(t)
    \/ \E t \in Threads : retry_pipeline(t)
    \/ \E t \in Threads : confirm(t)
    \/ \E t \in Threads : handle_ic(t)

Spec == Init /\ [][Next]_vars

(***************************************************************************)
(* Properties of the dispatcher and the PR mirror.                         *)
(***************************************************************************)
GitOps ==
    {"add_remotes", "fetch_github_remote", "create_ref_for_pr", "push_pr_ref",
     "delete_pr_ref"}
Ops(t) == [i \in 1..Len(calls[t]) |-> calls[t][i].op]
IsPrefix(s, full) == Len(s) <= Len(full) /\ \A i \in 1..Len(s) : s[i] = full[i]

\* the thread is handling a pull_request delivery whose body decoded
DecodedPr(t) == ev[t].event_type = "pull_request" /\ ev[t].body.decodes
\* the thread stands in a mirror handler: about to lock, or past the lock
\* and not yet returned
AtLock(t) == pc[t] \in {"handle_pr_closed", "handle_pr_updated"}
InHandler(t) == pc[t] \in {"entry"} \cup GitOps
\* the thread stands between two git worker operations of its delivery, or
\* in one
InGitOps(t) == pc[t] \in GitOps
\* the thread has touched the cache or the worker for its delivery
MirrorActivity(t) ==
    \/ AtLock(t) \/ InHandler(t) \/ repos_lock = t
    \/ clone_res[t] # "None"
    \/ \E i \in 1..Len(calls[t]) : calls[t][i].op \in GitOps

\* C1: the repo cache is acquired, a clone made or a git worker operation
\* invoked for a delivery only if it is a pull_request whose body decoded,
\* feature ExternalPr is enabled, its action is in enabled_actions and
\* pull_request.head.repo.fork is true.
C1_MirrorOnlyForEnabledForkPr ==
    \A t \in Threads :
        MirrorActivity(t) =>
            /\ DecodedPr(t)
            /\ "ExternalPr" \in config.features
            /\ ev[t].body.pr.action \in config.enabled_actions
            /\ ev[t].body.pr.pull_request.head.repo.fork = TRUE

\* a non-fork PR with an enabled action was acknowledged with no call made,
\* while the cache held an entry for its base URL
C1_Witness ==
    \E t \in Threads :
        /\ pc[t] = "done"
        /\ DecodedPr(t)
        /\ "ExternalPr" \in config.features
        /\ ev[t].body.pr.action \in config.enabled_actions
        /\ ev[t].body.pr.pull_request.head.repo.fork = FALSE
        /\ REPOS[ev[t].body.pr.repository.ssh_url] # 0
        /\ calls[t] = <<>> /\ clone_res[t] = "None"
        /\ response[t].status = "Ok"

\* C2: for a PR delivery whose action is not "closed", the worker calls made
\* so far are a prefix of add_remotes, fetch_github_remote,
\* create_ref_for_pr, push_pr_ref, all with the handle of the delivery and on
\* the repository cached for its base URL; only the last call made can have
\* failed, the handler stands at the call that follows the last successful
\* one, and it returns Ok exactly after four successful calls.
C2_UpdatedCallsInOrder ==
    \A t \in Threads :
        (DecodedPr(t) /\ ev[t].body.pr.action # "closed") =>
            LET pr == ev[t].body.pr
                n == Len(calls[t])
                order == <<"add_remotes", "fetch_github_remote",
                           "create_ref_for_pr", "push_pr_ref">> IN
            /\ IsPrefix(Ops(t), order)
            /\ \A i \in 1..n :
                 /\ calls[t][i].handle.pr_number = pr.pull_request.number
                 /\ calls[t][i].handle = calls[t][1].handle
                 /\ calls[t][i].repo # 0
                 /\ calls[t][i].repo = REPOS[pr.repository.ssh_url]
                 /\ i < n => calls[t][i].ret = "Ok"
            /\ pc[t] \in GitOps => (n < 4 /\ pc[t] = order[n + 1])
            /\ (n > 0 /\ calls[t][n].ret = "Err") => result[t] = "Err"
            /\ result[t] = "Ok" <=> (n = 4 /\ calls[t][4].ret = "Ok")

\* a fork PR "opened" went through all four calls and returned Ok
C2_Witness ==
    \E t \in Threads :
        /\ DecodedPr(t) /\ ev[t].body.pr.action = "opened"
        /\ Ops(t) = <<"add_remotes", "fetch_github_remote",
                      "create_ref_for_pr", "push_pr_ref">>
        /\ result[t] = "Ok"

\* C3: for a PR delivery whose action is "closed", the worker calls made so
\* far are a prefix of add_remotes, delete_pr_ref; delete_pr_ref is called
\* only after add_remotes returned Ok.
C3_ClosedCallsAddThenDelete ==
    \A t \in Threads :
        (DecodedPr(t) /\ ev[t].body.pr.action = "closed") =>
            LET n == Len(calls[t]) IN
            /\ IsPrefix(Ops(t), <<"add_remotes", "delete_pr_ref">>)
            /\ \A i \in 1..n : i < n => calls[t][i].ret = "Ok"
            /\ pc[t] \in GitOps =>
                 pc[t] = <<"add_remotes", "delete_pr_ref">>[n + 1]
            /\ result[t] = "Ok" <=> (n = 2 /\ calls[t][2].ret = "Ok")

\* a fork PR "closed" called add_remotes and delete_pr_ref and returned Ok
C3_Witness ==
    \E t \in Threads :
        /\ DecodedPr(t) /\ ev[t].body.pr.action = "closed"
        /\ Ops(t) = <<"add_remotes", "delete_pr_ref">>
        /\ result[t] = "Ok"

\* C4: a delivery whose body decodes is never answered with an error: once
\* handled, handle_event_body has returned Ok, whatever the mirror handler
\* or the command relay returned.
C4_DecodedBodyAcknowledged ==
    \A t \in Threads :
        ev[t].body.decodes =>
            /\ response[t].status # "BadRequest"
            /\ pc[t] = "done" => response[t].status = "Ok"

\* a mirror handler returned Err and the delivery was acknowledged
C4_Witness ==
    \E t \in Threads :
        /\ pc[t] = "done" /\ ev[t].body.decodes
        /\ ev[t].event_type = "pull_request"
        /\ result[t] = "Err" /\ response[t].status = "Ok"

\* C5: a base URL is cloned at most once.
C5_CloneOncePerUrl == \A u \in Urls : clones[u] <= 1

\* C6: no two threads stand inside a mirror handler (between the cache
\* lookup and the return of the last git worker operation) for the same base
\* URL; a thread inside a mirror handler holds the REPOS mutex, and a thread
\* outside does not.
C6_MutualExclusion ==
    /\ \A t1, t2 \in Threads :
         (t1 # t2 /\ InHandler(t1) /\ InHandler(t2)) =>
             ev[t1].body.pr.repository.ssh_url # ev[t2].body.pr.repository.ssh_url
    /\ \A t \in Threads : InHandler(t) <=> repos_lock = t

\* one thread is inside its git operations while another waits at the lock
\* with a delivery for the same base URL
C6_Witness ==
    \E t1, t2 \in Threads :
        /\ InGitOps(t1) /\ Len(calls[t1]) > 0 /\ AtLock(t2)
        /\ ev[t1].body.pr.repository.ssh_url = ev[t2].body.pr.repository.ssh_url

\* C7: an entry of the cache is never removed or replaced, two base URLs
\* never share a working repository, and every worker call of a delivery is
\* made on the entry of its base URL.
C7_EntryNeverReplaced ==
    [][ /\ \A u \in Urls : REPOS[u] # 0 => REPOS'[u] = REPOS[u]
        /\ \A u1, u2 \in Urls : (u1 # u2 /\ REPOS'[u1] # 0) => REPOS'[u1] # REPOS'[u2]
        /\ \A t \in Threads : \A i \in 1..Len(calls'[t]) :
             calls'[t][i].op \in GitOps =>
                 calls'[t][i].repo = REPOS'[ev'[t].body.pr.repository.ssh_url]
      ]_vars

\* a second clone of a cached URL succeeded, and the worker was called on
\* the directory of the first
C7_Witness ==
    \E t \in Threads :
        /\ Len(calls[t]) > 0 /\ calls[t][1].op = "add_remotes"
        /\ clones[ev[t].body.pr.repository.ssh_url] = 2
        /\ calls[t][1].repo = REPOS[ev[t].body.pr.repository.ssh_url]
        /\ calls[t][1].repo < next_dir - 1

\* C8: when clone_repo fails, the mirror handler returns Err in the same
\* step, the cache is left as it was, and no worker call is made for the
\* delivery.
C8_CloneFailureLeavesCache ==
    [][ \A t \in Threads :
          clone_res'[t] = "Err" =>
              /\ result'[t] = "Err"
              /\ calls'[t] = <<>>
              /\ ~InHandler(t)'
              /\ clone_res[t] # "Err" => REPOS' = REPOS
      ]_vars

\* a clone failed for a base URL that the cache holds, and the delivery
\* was acknowledged without a worker call
C8_Witness ==
    \E t \in Threads :
        /\ clone_res[t] = "Err" /\ pc[t] = "done"
        /\ REPOS[ev[t].body.pr.repository.ssh_url] # 0
        /\ calls[t] = <<>> /\ result[t] = "Err"

get_pipelines(p) == IF p \in DOMAIN lab THEN lab[p] ELSE lab_rest
\* requests followed in one call of find_pipeline_id
MaxRequests == MaxPages + 2

\* while result_len == 100
while_nonempty(len) == len > 0
while_at_most(len) == len <= PerPage
while_condition(len) == len = PerPage

\* .filter(|p| p.sha.is_some() && p.id.is_some())
has_id_and_sha(p) == is_some(p.sha) /\ is_some(p.id)

\* .iter().filter(..).find(|p| p.sha.as_ref().unwrap() == sha)
find_last(pipelines, sha) ==
    LET kept == SelectSeq(pipelines, has_id_and_sha)
        hits == {i \in 1..Len(kept) : unwrap(kept[i].sha) = sha} IN
    IF hits = {} THEN None
    ELSE Some(kept[CHOOSE i \in hits : \A j \in hits : j <= i])
find_first(pipelines, sha) ==
    LET kept == SelectSeq(pipelines, has_id_and_sha)
        hits == {i \in 1..Len(kept) : unwrap(kept[i].sha) = sha} IN
    IF hits = {} THEN None
    ELSE Some(kept[CHOOSE i \in hits : \A j \in hits : i <= j])

DefaultConfig ==
    [features |-> {"ExternalPr", "Commands"},
     enabled_actions |-> {"opened", "closed"},
     enabled_commands |-> {"Retry"},
     gitlab |-> [hostname |-> None]]

\* find_pipeline_id is entered with Lab holding any pages
InitFind ==
    /\ config = DefaultConfig
    /\ hub_to_lab = DefaultHubToLab
    /\ InitServer
    /\ InitGitOff
    /\ lab \in [1..MaxPages -> LabResponses]
    /\ lab_rest = EmptyPage
    /\ fp_pc = "loop"
    /\ page = 1
    /\ result_len = PerPage
    /\ requested = <<>>
    /\ per_page = <<>>
    /\ fp_result = [kind |-> "None", id |-> 0]

FindReturn(kind, id) ==
    /\ fp_result' = [kind |-> kind, id |-> id]
    /\ fp_pc' = "done"

\* one round of the while loop: request the page, look for the pipeline
find_pipeline_id_page ==
    /\ fp_pc = "loop"
    /\ while_condition(result_len)
    /\ Len(requested) < MaxRequests
    /\ requested' = Append(requested, page)
    /\ per_page' = Append(per_page, PerPage)
    /\ LET resp == get_pipelines(page) IN
       IF propagates(resp.ok)
         THEN /\ FindReturn("RequestErr", 0)
              /\ UNCHANGED <<page, result_len>>
         ELSE LET pipelines == Pipelines(resp)
                  pipeline == find_first(pipelines, TargetSha) IN
              IF is_some(pipeline)
                THEN /\ FindReturn("Ok", unwrap(unwrap(pipeline).id))
                     /\ UNCHANGED <<page, result_len>>
                ELSE /\ result_len' = Len(pipelines)
                     /\ page' = page + 1
                     /\ UNCHANGED <<fp_pc, fp_result>>
    /\ UNCHANGED <<server_vars, lab, lab_rest, git_vars>>

\* the loop ends with nothing found
find_pipeline_id_not_found ==
    /\ fp_pc = "loop"
    /\ ~while_condition(result_len)
    /\ FindReturn("NotFound", 0)
    /\ UNCHANGED <<server_vars, lab, lab_rest, page, result_len, requested, per_page,
                   git_vars>>

NextFind == find_pipeline_id_page \/ find_pipeline_id_not_found

SpecFind == InitFind /\ [][NextFind]_vars

(***************************************************************************)
(* Properties of the pipeline search.                                      *)
(***************************************************************************)
\* the length of page p of Lab's list, 0 past the last page
LabPageLen(p) == IF p \in 1..MaxPages THEN lab[p].len ELSE 0
\* the first page with fewer than 100 records
FirstShortPage ==
    CHOOSE p \in 1..(MaxPages + 1) :
        LabPageLen(p) < 100 /\ \A q \in 1..(p - 1) : LabPageLen(q) >= 100
\* <<page, index>> of the records, up to that page, that have an id and a
\* sha and whose sha is the target
Candidates ==
    { pi \in UNION { {<<p, i>> : i \in 1..lab[p].len} :
                         p \in (1..FirstShortPage) \cap (1..MaxPages) } :
        LET r == Pipelines(lab[pi[1]])[pi[2]] IN
        r.id # None /\ r.sha # None /\ r.sha[1] = TargetSha }
Earliest(c) ==
    CHOOSE a \in c : \A b \in c : a[1] < b[1] \/ (a[1] = b[1] /\ a[2] <= b[2])

\* C10: find_pipeline_id returns the id of the first record, in page order
\* and then in the order within the page, that has an id and a sha and whose
\* sha is the target, among the pages up to and including the first one
\* shorter than 100 records; with no such record, it returns the error that
\* no pipeline was found.  (A request that Lab fails counts as the end of
\* the pages; what the search returns when it gets there is not stated.)
C10_FirstMatchInPageOrder ==
    fp_pc = "done" =>
        IF Candidates # {}
          THEN LET c == Earliest(Candidates) IN
               /\ fp_result.kind = "Ok"
               /\ fp_result.id = Pipelines(lab[c[1]])[c[2]].id[1]
          ELSE (FirstShortPage \in 1..MaxPages => lab[FirstShortPage].ok)
                   => fp_result.kind = "NotFound"

\* the search passed a full page holding a record of the target commit
\* without an id, and returned the first of two matches of the second page
C10_Witness ==
    /\ fp_pc = "done"
    /\ requested = <<1, 2>>
    /\ lab[1].len = 100
    /\ lab[1].head = <<[id |-> None, sha |-> Some("abc")]>>
    /\ lab[2].head = <<[id |-> Some(5), sha |-> Some("abc")],
                       [id |-> Some(7), sha |-> Some("abc")]>>
    /\ fp_result = [kind |-> "Ok", id |-> 5]

\* the page holds a record with an id and a sha whose sha is the target
HasMatch(resp) ==
    \E i \in 1..Len(Pipelines(resp)) :
        LET r == Pipelines(resp)[i] IN
        r.id # None /\ r.sha # None /\ r.sha[1] = TargetSha

\* C11: the pages requested so far are 1, 2, 3, ... in this order, each with
\* per_page = 100; every requested page but the last one succeeded, held 100
\* records and no matching record; the search goes on only after such a
\* page; and when the last request failed, the search has ended with the
\* error of that request (and it ends with that error in no other case).
C11_PagesRequestedInOrder ==
    LET n == Len(requested) IN
    /\ Len(per_page) = n
    /\ \A i \in 1..n : requested[i] = i /\ per_page[i] = 100
    /\ \A i \in 1..(n - 1) :
         /\ get_pipelines(i).ok
         /\ get_pipelines(i).len = 100
         /\ ~HasMatch(get_pipelines(i))
    /\ (fp_pc = "loop" /\ n > 0) =>
         get_pipelines(n).ok /\ ~HasMatch(get_pipelines(n))
    /\ fp_pc = "loop" => page = n + 1
    /\ fp_pc = "done" =>
         /\ n >= 1
         /\ ~get_pipelines(n).ok <=> fp_result.kind = "RequestErr"
         /\ fp_result.kind = "Ok" <=> (get_pipelines(n).ok /\ HasMatch(get_pipelines(n)))
         /\ fp_result.kind = "NotFound" =>
              (get_pipelines(n).ok /\ get_pipelines(n).len < 100)

\* the search went past a full page without a match, found a match on
\* page 2 and asked for no third page although page 2 is full
C11_Witness ==
    /\ fp_pc = "done"
    /\ requested = <<1, 2>>
    /\ per_page = <<100, 100>>
    /\ lab[1].len = 100 /\ ~HasMatch(lab[1])
    /\ lab[2].len = 100 /\ HasMatch(lab[2])
    /\ fp_result.kind = "Ok"

(***************************************************************************)
(* Properties of the command relay.                                        *)
(***************************************************************************)
\* the thread is handling an issue_comment delivery whose body decoded
DecodedIc(t) == ev[t].event_type = "issue_comment" /\ ev[t].body.decodes
\* what the comment of the delivery parses to
Command(t) == parse_body(ev[t].body.ic.comment.body, BotName)
\* handle_pr_ic runs for the delivery
RelayRuns(t) ==
    /\ DecodedIc(t)
    /\ "Commands" \in config.features
    /\ ev[t].body.ic.issue.pull_request
\* handle_pr_ic has returned
RelayReturned(t) == pc[t] \in {"handle_ic", "done"}
RetryOrder ==
    <<"get_pull", "get_pipelines", "retry_pipeline", "create_issue_comment">>
RetryPcs == <<"get_sha", "find_pipeline_id", "retry_pipeline", "confirm">>

\* C12: for a comment that parses to Retry, the calls made so far are a
\* prefix of get_pull, pipeline search, retry_pipeline,
\* create_issue_comment; every call but the last one made has succeeded; the
\* search looks for the sha that get_pull returned, retry_pipeline is called
\* with the id that the search returned, and the comment holds that id; with
\* a repository name that does not split into two parts no call is made; and
\* the relay returns Ok for an enabled Retry only after all four succeeded.
C12_RetryCallsInOrder ==
    \A t \in Threads :
        (DecodedIc(t) /\ Command(t) = "Retry") =>
            LET c == calls[t]
                n == Len(calls[t]) IN
            /\ IsPrefix(Ops(t), RetryOrder)
            /\ \A i \in 1..(n - 1) : c[i].ret = "Ok"
            /\ n >= 2 => c[2].arg = c[1].value
            /\ n >= 3 => (c[3].arg = c[2].value /\ c[3].arg \in PipelineIds)
            /\ n >= 4 => (c[4].arg[2] = c[2].value /\ c[4].arg[5] = c[2].value)
            /\ Len(ev[t].body.ic.repository.full_name) # 2 => n = 0
            /\ \A i \in 1..4 : pc[t] = RetryPcs[i] => n = i - 1
            /\ (RelayReturned(t) /\ result[t] = "Ok"
                    /\ "Retry" \in config.enabled_commands) =>
                 (n = 4 /\ c[4].ret = "Ok")
            /\ (RelayReturned(t) /\ n > 0 /\ c[n].ret = "Err") => result[t] = "Err"

\* a retry went through: get_pull, the search returning 7, retry_pipeline
\* of 7 and the confirmation, all succeeding
C12_Witness ==
    \E t \in Threads :
        /\ DecodedIc(t) /\ Command(t) = "Retry" /\ pc[t] = "done"
        /\ Ops(t) = RetryOrder
        /\ calls[t][3].arg = 7 /\ calls[t][4].ret = "Ok"
        /\ result[t] = "Ok"

\* C14, as it holds: for UnknownCommand the relay makes one
\* create_issue_comment call with the "I don't know that command" reply
\* when the repository name splits into two parts, and returns Ok exactly
\* when that call succeeded; with another repository name it makes no call
\* and returns an error.  For BadUsername, InvalidLength and InvalidFormat
\* it returns an error and makes no call at all.
C14_UnknownCommandReplyAttempted ==
    \A t \in Threads :
        RelayRuns(t) =>
            LET c == calls[t]
                n == Len(calls[t]) IN
            /\ Command(t) = "UnknownCommand" =>
                 /\ IsPrefix(Ops(t), <<"create_issue_comment">>)
                 /\ \A i \in 1..n : c[i].arg = UnknownCommandBody
                 /\ RelayReturned(t) =>
                      IF Len(ev[t].body.ic.repository.full_name) = 2
                        THEN n = 1 /\ (result[t] = "Ok" <=> c[1].ret = "Ok")
                                   /\ (result[t] = "Err" <=> c[1].ret = "Err")
                        ELSE n = 0 /\ result[t] = "Err"
            /\ Command(t) \in {"BadUsername", "InvalidLength", "InvalidFormat"} =>
                 /\ n = 0
                 /\ pc[t] \in {"handle_event_body", "handle_ic", "done"}
                 /\ RelayReturned(t) => result[t] = "Err"

\* the reply to an unknown command could not be posted, and the relay
\* returned the error
C14_Witness ==
    \E t \in Threads :
        /\ RelayRuns(t) /\ Command(t) = "UnknownCommand" /\ pc[t] = "done"
        /\ Ops(t) = <<"create_issue_comment">>
        /\ calls[t][1].ret = "Err" /\ result[t] = "Err"

\* C14, as claimed: for UnknownCommand the relay posts exactly one reply and
\* returns Ok; for the other three parse errors it returns an error with no
\* call made.
C14_UnknownCommandReplied ==
    \A t \in Threads :
        (RelayRuns(t) /\ RelayReturned(t)) =>
            /\ Command(t) = "UnknownCommand" =>
                 /\ Len(calls[t]) = 1
                 /\ calls[t][1].op = "create_issue_comment"
                 /\ calls[t][1].ret = "Ok"
                 /\ result[t] = "Ok"
            /\ Command(t) \in {"BadUsername", "InvalidLength", "InvalidFormat"} =>
                 (calls[t] = <<>> /\ result[t] = "Err")

\* C15: for an issue_comment delivery, no Hub or Lab call is made, and the
\* relay stands at no call, when feature Commands is disabled, or the issue
\* has no pull request, or the comment parses to Retry and Retry is not in
\* enabled_commands.
C15_NoCallWhenGated ==
    \A t \in Threads :
        (/\ ev[t].event_type = "issue_comment"
         /\ \/ "Commands" \notin config.features
            \/ (ev[t].body.decodes /\ ~ev[t].body.ic.issue.pull_request)
            \/ (ev[t].body.decodes /\ Command(t) = "Retry"
                    /\ "Retry" \notin config.enabled_commands)) =>
            /\ calls[t] = <<>>
            /\ pc[t] \in {"handle_event_body", "handle_ic", "done"}
            /\ pipeline_id[t] = 0

\* a retry comment on a PR was handled with Commands enabled and Retry not
\* enabled: no call was made and the relay returned Ok
C15_Witness ==
    \E t \in Threads :
        /\ RelayRuns(t) /\ Command(t) = "Retry" /\ pc[t] = "done"
        /\ "Retry" \notin config.enabled_commands
        /\ calls[t] = <<>> /\ result[t] = "Ok"

\* the handler of the delivery decodes the body: always for push, and for
\* pull_request and issue_comment when their feature is enabled
BodyDecoded(t) ==
    \/ ev[t].event_type = "push"
    \/ ev[t].event_type = "pull_request" /\ "ExternalPr" \in config.features
    \/ ev[t].event_type = "issue_comment" /\ "Commands" \in config.features
HandledTypes == {"push", "pull_request", "issue_comment"}

\* C16, as it holds: a delivery of a handled type whose body does not decode
\* causes no git operation and no API call; it is answered 400 BadRequest
\* when its handler decodes the body (push; pull_request with ExternalPr
\* enabled; issue_comment with Commands enabled) and acknowledged with 200
\* when the feature of its type is disabled.
C16_UndecodableRejectedWhenDecoded ==
    \A t \in Threads :
        (ev[t].event_type \in HandledTypes /\ ~ev[t].body.decodes) =>
            /\ calls[t] = <<>>
            /\ ~MirrorActivity(t)
            /\ pc[t] \in {"handle_event_body", "done"}
            /\ pc[t] = "done" =>
                 response[t].status = IF BodyDecoded(t) THEN "BadRequest" ELSE "Ok"

\* an undecodable pull_request body was answered 400 with ExternalPr enabled
C16_Witness ==
    \E t \in Threads :
        /\ ev[t].event_type = "pull_request" /\ ~ev[t].body.decodes
        /\ "ExternalPr" \in config.features
        /\ pc[t] = "done" /\ response[t].status = "BadRequest"
        /\ calls[t] = <<>>

\* C16, as claimed: whatever the features, a delivery of a handled type
\* whose body does not decode is answered 400 and never acknowledged, with
\* no git operation and no API call.
C16_UndecodableAlwaysRejected ==
    \A t \in Threads :
        (ev[t].event_type \in HandledTypes /\ ~ev[t].body.decodes) =>
            /\ calls[t] = <<>>
            /\ ~MirrorActivity(t)
            /\ response[t].status # "Ok"
            /\ pc[t] = "done" => response[t].status = "BadRequest"

(***************************************************************************)
(* The Retry flow under any configured name map: one thread handles retry  *)
(* comments on PRs of repositories whose names the map holds or not.       *)
(***************************************************************************)
RelayThread == "t1"
RepoNames == NameMapKeys \cup NameMapValues
RetryDeliveries ==
    { [event_type |-> "issue_comment",
       body |-> [decodes |-> TRUE,
                 ic |-> IssueComment(TRUE, [at |-> "bot", args |-> <<"retry">>], fn)]] :
          fn \in RepoNames }

InitRetry ==
    /\ config = DefaultConfig
    /\ hub_to_lab \in NameMaps
    /\ InitServer
    /\ InitFindOff
    /\ InitGitOff

NextRetry ==
    \/ \E e \in RetryDeliveries : github_event(RelayThread, e)
    \/ handle_issue_comment(RelayThread)
    \/ get_sha(RelayThread)
    \/ search_pipeline(RelayThread)
    \/ retry_pipeline(RelayThread)
    \/ confirm(RelayThread)
    \/ handle_ic(RelayThread)

SpecRetry == InitRetry /\ [][NextRetry]_vars

\* the values and the keys of the configured map
Image == { hub_to_lab[k] : k \in DOMAIN hub_to_lab }

\* C19: get_gitlab_repo_name(x) is hub_to_lab[x] when x is a key of the map
\* and x otherwise, for every name x (so it returns for every x); applied
\* twice it gives what it gives applied once whenever no value of the map
\* is a key of it; and the project that retry_pipeline is called on is that
\* translation of repository.full_name.
C19_NameMapperLookup ==
    /\ \A x \in RepoNames :
         /\ x \in DOMAIN hub_to_lab => get_gitlab_repo_name(x) = hub_to_lab[x]
         /\ x \notin DOMAIN hub_to_lab => get_gitlab_repo_name(x) = x
         /\ get_gitlab_repo_name(x) \in RepoNames
         /\ Image \cap DOMAIN hub_to_lab = {} =>
              get_gitlab_repo_name(get_gitlab_repo_name(x)) = get_gitlab_repo_name(x)
    /\ \A i \in 1..Len(calls[RelayThread]) :
         LET c == calls[RelayThread][i]
             x == ev[RelayThread].body.ic.repository.full_name IN
         c.op = "retry_pipeline" =>
             c.project = IF x \in DOMAIN hub_to_lab THEN hub_to_lab[x] ELSE x

\* with a map that takes org/a to grp/b and has no value among its keys, a
\* retry on org/a called retry_pipeline on grp/b
C19_Witness ==
    /\ <<"org", "a">> \in DOMAIN hub_to_lab
    /\ hub_to_lab[<<"org", "a">>] = <<"grp", "b">>
    /\ Image \cap DOMAIN hub_to_lab = {}
    /\ ev[RelayThread].event_type = "issue_comment"
    /\ ev[RelayThread].body.ic.repository.full_name = <<"org", "a">>
    /\ Len(calls[RelayThread]) >= 3
    /\ calls[RelayThread][3].op = "retry_pipeline"
    /\ calls[RelayThread][3].project = <<"grp", "b">>

\* C20: in the Retry flow the project searched for pipelines, the project
\* retry_pipeline is called on and the project of the link in the
\* confirmation comment are all the translation of repository.full_name by
\* the name mapper, whatever the configured map.
C20_OneProjectInRetryFlow ==
    \A i \in 1..Len(calls[RelayThread]) :
        LET c == calls[RelayThread][i]
            x == ev[RelayThread].body.ic.repository.full_name
            lookup == IF x \in DOMAIN hub_to_lab THEN hub_to_lab[x] ELSE x IN
        /\ c.op \in {"get_pipelines", "retry_pipeline"} => c.project = lookup
        /\ c.op = "create_issue_comment" =>
             (c.arg[3] = make_ext_url(lookup) /\ c.arg[6] = make_ext_url(lookup))

(***************************************************************************)
(* github.rs: impl RepositoryExt for Repository.  The five operations act  *)
(* on one working repository (the cache entry of RepoA), on the forks on   *)
(* Hub and on the repository on Lab.  A string that the code formats is    *)
(* the sequence of its pieces; git2's calls are modelled by what libgit2   *)
(* does with the repository's configuration and references.                *)
(***************************************************************************)
\* pull_request payloads handled on the working repository
MaxGitEvents == 2
\* object ids: 2 descends from 1
Oids == {1, 2}
GitRefs == {"feature"}
ForkOwners == {"dev", "eve"}

\* the pieces of a name joined by sep
RECURSIVE join(_, _)
join(parts, sep) ==
    IF Len(parts) <= 1 THEN parts
    ELSE <<parts[1], sep>> \o join(Tail(parts), sep)

ForkBy(owner, base) ==
    [full_name |-> <<owner, base.full_name[2]>>,
     ssh_url |-> <<"git@hub:", owner, "/", base.full_name[2], ".git">>,
     fork |-> TRUE]
ForkUrls == { ForkBy(o, RepoA).ssh_url : o \in ForkOwners }

\* fork PR payloads of RepoA: PR 7 or 8, opened from either fork
GitPullRequests ==
    { [action |-> a,
       pull_request |->
           [number |-> n,
            head |-> [ref_key |-> g, repo |-> ForkBy(o, RepoA)],
            base |-> [repo |-> [full_name |-> RepoA.full_name]]],
       repository |-> RepoA] :
         a \in {"opened", "closed"}, n \in {7, 8}, o \in ForkOwners,
         g \in GitRefs }

\* add_remotes: the strings it formats
github_refspec(pr_handle) ==
    <<"+", "refs/heads/", "*", ":", "refs/remotes/">>
        \o pr_handle.github_remote \o <<"/", "*">>
hostname ==
    IF is_some(config.gitlab.hostname)
      THEN unwrap(config.gitlab.hostname)
      ELSE "gitlab.com"
gitlab_url(pr_handle) ==
    <<"git@", hostname, ":">>
        \o join(get_gitlab_repo_name(pr_handle.base_full_name), "/")
        \o <<".git">>
gitlab_refspec == <<"refs/heads/", "master", ":", "refs/heads/", "master">>

\* create_ref_for_pr: the strings it formats
github_ref(pr_handle) ==
    <<"refs/remotes/">> \o pr_handle.github_remote \o <<"/", pr_handle.gitref>>
gitlab_ref_without_number(pr_handle) ==
    <<"refs/heads/", "pr-">>
        \o join(pr_handle.head_full_name, "/") \o <<"/", pr_handle.gitref>>
gitlab_ref(pr_handle) ==
    <<"refs/heads/", "pr-", ToString(pr_handle.pr_number), "/">>
        \o join(pr_handle.head_full_name, "/") \o <<"/", pr_handle.gitref>>
\* self.reference(&gitlab_ref, id, true, "new ref"): the force argument
reference_no_force == FALSE
reference_force == TRUE

\* push_pr_ref: the refspec it formats
push_pr_ref_refspec_by_number(pr_handle) ==
    <<"+", "refs/heads/", "pr-", ToString(pr_handle.pr_number), "/">>
        \o join(pr_handle.head_full_name, "/") \o <<"/", pr_handle.gitref>>
        \o <<":", "refs/heads/", "pr-", ToString(pr_handle.pr_number)>>
push_pr_ref_refspec(pr_handle) ==
    <<"+", "refs/heads/", "pr-", ToString(pr_handle.pr_number), "/">>
        \o join(pr_handle.head_full_name, "/") \o <<"/", pr_handle.gitref>>
        \o <<":", "refs/heads/", "pr-", ToString(pr_handle.pr_number), "/">>
        \o join(pr_handle.head_full_name, "/") \o <<"/", pr_handle.gitref>>

\* delete_pr_ref: the refspec it formats
delete_pr_ref_refspec_branch(pr_handle) ==
    <<":", "refs/heads/", pr_handle.gitref>>
delete_pr_ref_refspec(pr_handle) ==
    <<":", "refs/heads/", "pr-", ToString(pr_handle.pr_number), "/">>
        \o join(pr_handle.head_full_name, "/") \o <<"/", pr_handle.gitref>>

\* a refspec [+]src:dst
refspec_force(spec) == spec # <<>> /\ spec[1] = "+"
refspec_body(spec) == IF refspec_force(spec) THEN Tail(spec) ELSE spec
refspec_colon(spec) ==
    LET body == refspec_body(spec) IN
    CHOOSE i \in 1..Len(body) :
        body[i] = ":" /\ \A j \in 1..(i - 1) : body[j] # ":"
refspec_src(spec) == SubSeq(refspec_body(spec), 1, refspec_colon(spec) - 1)
refspec_dst(spec) ==
    SubSeq(refspec_body(spec), refspec_colon(spec) + 1, Len(refspec_body(spec)))
\* the refspec's source names the reference, or is a pattern matching it
refspec_src_matches(spec, name) ==
    LET src == refspec_src(spec) IN
    IF src # <<>> /\ src[Len(src)] = "*"
      THEN /\ Len(name) >= Len(src)
           /\ SubSeq(name, 1, Len(src) - 1) = SubSeq(src, 1, Len(src) - 1)
      ELSE name = src
\* the destination the refspec gives the reference
refspec_transform(spec, name) ==
    LET src == refspec_src(spec)
        dst == refspec_dst(spec) IN
    IF dst # <<>> /\ dst[Len(dst)] = "*"
      THEN SubSeq(dst, 1, Len(dst) - 1) \o SubSeq(name, Len(src), Len(name))
      ELSE dst

\* the [remote "name"] sections of the repository's configuration
NoRemote == [url |-> None, fetch |-> <<>>, push |-> <<>>]
RemoteConfig(cfg, name) == IF name \in DOMAIN cfg THEN cfg[name] ELSE NoRemote
SetRemote(cfg, name, r) ==
    [n \in DOMAIN cfg \cup {name} |-> IF n = name THEN r ELSE cfg[n]]
\* git_remote_add_fetch / git_remote_add_push: one more value of the
\* multivar remote.<name>.fetch / .push, whatever it holds already
remote_add_fetch(cfg, name, refspec) ==
    SetRemote(cfg, name,
              [RemoteConfig(cfg, name) EXCEPT !.fetch = Append(@, refspec)])
remote_add_push(cfg, name, refspec) ==
    SetRemote(cfg, name,
              [RemoteConfig(cfg, name) EXCEPT !.push = Append(@, refspec)])
\* git_remote_set_url: remote.<name>.url is set
remote_set_url_if_absent(cfg, name, url) ==
    IF is_some(RemoteConfig(cfg, name).url)
      THEN SetRemote(cfg, name, RemoteConfig(cfg, name))
      ELSE SetRemote(cfg, name, [RemoteConfig(cfg, name) EXCEPT !.url = Some(url)])
remote_set_url(cfg, name, url) ==
    SetRemote(cfg, name, [RemoteConfig(cfg, name) EXCEPT !.url = Some(url)])
\* git_remote_lookup: a remote is one that has a url
find_remote(cfg, name) ==
    IF name \in DOMAIN cfg /\ is_some(cfg[name].url) THEN Some(cfg[name]) ELSE None

\* the configuration after none, one, .. all four calls of add_remotes
add_remotes_calls(cfg, pr_handle) ==
    LET c1 == remote_add_fetch(cfg, pr_handle.github_remote,
                               github_refspec(pr_handle))
        c2 == remote_set_url(c1, pr_handle.github_remote,
                             pr_handle.github_clone_url)
        c3 == remote_add_push(c2, pr_handle.gitlab_remote, gitlab_refspec)
        c4 == remote_set_url(c3, pr_handle.gitlab_remote, gitlab_url(pr_handle)) IN
    <<cfg, c1, c2, c3, c4>>

\* references: of the working repository, and of a repository on Lab
SetRef(rs, name, oid) ==
    [n \in DOMAIN rs \cup {name} |-> IF n = name THEN oid ELSE rs[n]]
DelRef(rs, name) == [n \in DOMAIN rs \ {name} |-> rs[n]]
refname_to_id(rs, name) == IF name \in DOMAIN rs THEN Some(rs[name]) ELSE None
is_descendant(new, old) == new >= old
LabAt(lab_state, url) == IF url \in DOMAIN lab_state THEN lab_state[url] ELSE <<>>

\* remote.fetch(&[gitref]): the branch is read from the remote's url, and
\* the remote's fetch refspecs that match it update their destinations
fetch(rs, remote, gitref, oid) ==
    LET name == <<"refs/heads/", gitref>>
        specs == { remote.fetch[i] : i \in 1..Len(remote.fetch) }
        targets == { refspec_transform(spec, name) :
                       spec \in { sp \in specs :
                           /\ refspec_src_matches(sp, name)
                           /\ \/ refspec_force(sp)
                              \/ refspec_transform(sp, name) \notin DOMAIN rs
                              \/ is_descendant(oid, rs[refspec_transform(sp, name)]) } } IN
    [n \in DOMAIN rs \cup targets |-> IF n \in targets THEN oid ELSE rs[n]]

ThePrHandle == PrHandle(git_ev)
\* builder.clone(url, dir): the configuration of a fresh clone
CloneConfig ==
    (<<"origin">> :>
         [url |-> Some(<<RepoA.ssh_url>>),
          fetch |-> << <<"+", "refs/heads/", "*", ":",
                         "refs/remotes/", "origin", "/", "*">> >>,
          push |-> <<>>])
MasterRef == <<"refs/heads/", "master">>

InitGit ==
    /\ config = DefaultConfig
    /\ hub_to_lab = DefaultHubToLab
    /\ InitServer
    /\ InitFindOff
    /\ remotes = CloneConfig
    /\ refs = (MasterRef :> 1 @@ <<"refs/remotes/", "origin", "/", "master">> :> 1)
    /\ lab_refs = [u \in {gitlab_url([base_full_name |-> RepoA.full_name])} |->
                      (MasterRef :> 1)]
    /\ fork_heads = [u \in ForkUrls |-> [g \in GitRefs |-> 1]]
    /\ git_pc = "idle"
    /\ git_ev = NoPr
    /\ git_handled = 0
    /\ git_calls = <<>>
    /\ lab_before = <<>>
    /\ hist = <<>>

\* handle_pr_updated / handle_pr_closed hold the lock and the cache entry,
\* and call the handler of the payload on the working repository
git_event(pr) ==
    /\ git_pc = "idle"
    /\ git_handled < MaxGitEvents
    /\ git_handled' = git_handled + 1
    /\ git_ev' = pr
    /\ git_calls' = <<>>
    /\ lab_before' = lab_refs
    /\ git_pc' = HandlerBody(pr)[1]
    /\ UNCHANGED <<server_vars, find_vars, remotes, refs, lab_refs, fork_heads, hist>>

\* a contributor pushes to a branch of a fork: a new commit or a rewind
fork_push(url, branch, oid) ==
    /\ git_pc # "off"
    /\ fork_heads[url][branch] # oid
    /\ fork_heads' = [fork_heads EXCEPT ![url][branch] = oid]
    /\ UNCHANGED <<server_vars, find_vars, remotes, refs, lab_refs, git_pc, git_ev,
                   git_handled, git_calls, lab_before, hist>>

\* the handler returns
GitReturn(r) ==
    /\ git_pc' = "idle"
    /\ hist' = Append(IF Len(hist) = 2 THEN Tail(hist) ELSE hist,
                      [pr |-> git_ev, result |-> r, calls |-> git_calls',
                       lab_before |-> lab_before, lab_after |-> lab_refs'])

\* an operation returned to the handler: ? leaves on Err
GitStep(op, ok) ==
    IF propagates(ok)
      THEN GitReturn("Err")
      ELSE IF AfterCall(HandlerBody(git_ev), op) = "return"
      THEN GitReturn("Ok")
      ELSE /\ git_pc' = AfterCall(HandlerBody(git_ev), op)
           /\ UNCHANGED hist

GitCall(op, env, ok, detail) ==
    [op |-> op, env |-> env, ret |-> IF ok THEN "Ok" ELSE "Err", detail |-> detail]

Repository_add_remotes ==
    /\ git_pc = "add_remotes"
    /\ \E done \in 0..4 :
         /\ remotes' = add_remotes_calls(remotes, ThePrHandle)[done + 1]
         /\ git_calls' = Append(git_calls,
                                GitCall("add_remotes", done = 4, done = 4, <<>>))
         /\ UNCHANGED <<refs, lab_refs>>
         /\ GitStep("add_remotes", done = 4)
    /\ UNCHANGED <<server_vars, find_vars, fork_heads, git_ev, git_handled,
                   lab_before>>

Repository_fetch_github_remote ==
    /\ git_pc = "fetch_github_remote"
    /\ \E env \in BOOLEAN :
         LET remote == find_remote(remotes, ThePrHandle.github_remote)
             ok == env /\ is_some(remote)
             oid == IF is_some(remote)
                      THEN fork_heads[unwrap(unwrap(remote).url)][ThePrHandle.gitref]
                      ELSE 0 IN
         /\ refs' = IF ok
                      THEN fetch(refs, unwrap(remote), ThePrHandle.gitref, oid)
                      ELSE refs
         /\ git_calls' = Append(git_calls,
                GitCall("fetch_github_remote", env, ok,
                        [oid |-> oid,
                         url |-> IF is_some(remote) THEN unwrap(remote).url
                                 ELSE None]))
         /\ UNCHANGED <<remotes, lab_refs>>
         /\ GitStep("fetch_github_remote", ok)
    /\ UNCHANGED <<server_vars, find_vars, fork_heads, git_ev, git_handled,
                   lab_before>>

Repository_create_ref_for_pr ==
    /\ git_pc = "create_ref_for_pr"
    /\ \E env \in BOOLEAN :
         LET id == refname_to_id(refs, github_ref(ThePrHandle))
             ok == /\ env
                   /\ is_some(id)
                   /\ reference_force \/ gitlab_ref(ThePrHandle) \notin DOMAIN refs IN
         /\ refs' = IF ok
                      THEN SetRef(refs, gitlab_ref(ThePrHandle), unwrap(id))
                      ELSE refs
         /\ git_calls' = Append(git_calls,
                GitCall("create_ref_for_pr", env, ok,
                        [name |-> gitlab_ref(ThePrHandle),
                         from |-> github_ref(ThePrHandle)]))
         /\ UNCHANGED <<remotes, lab_refs>>
         /\ GitStep("create_ref_for_pr", ok)
    /\ UNCHANGED <<server_vars, find_vars, fork_heads, git_ev, git_handled,
                   lab_before>>

Repository_push_pr_ref ==
    /\ git_pc = "push_pr_ref"
    /\ \E env \in BOOLEAN :
         LET gitremote == find_remote(remotes, ThePrHandle.gitlab_remote)
             refspec == push_pr_ref_refspec(ThePrHandle)
             src == refspec_src(refspec)
             dst == refspec_dst(refspec)
             url == unwrap(unwrap(gitremote).url)
             theirs == LabAt(lab_refs, url)
             ok == /\ env
                   /\ is_some(gitremote)
                   /\ src \in DOMAIN refs
                   /\ \/ refspec_force(refspec)
                      \/ dst \notin DOMAIN theirs
                      \/ is_descendant(refs[src], theirs[dst]) IN
         /\ lab_refs' = IF ok
                          THEN SetRef(lab_refs, url, SetRef(theirs, dst, refs[src]))
                          ELSE lab_refs
         /\ git_calls' = Append(git_calls,
                GitCall("push_pr_ref", env, ok, [refspec |-> refspec]))
         /\ UNCHANGED <<remotes, refs>>
         /\ GitStep("push_pr_ref", ok)
    /\ UNCHANGED <<server_vars, find_vars, fork_heads, git_ev, git_handled,
                   lab_before>>

\* the push of a refspec with an empty source deletes the destination; what
\* the push returns for a destination that Lab does not hold is left open
Repository_delete_pr_ref ==
    /\ git_pc = "delete_pr_ref"
    /\ \E env \in BOOLEAN, missing_ok \in BOOLEAN :
         LET gitremote == find_remote(remotes, ThePrHandle.gitlab_remote)
             refspec == delete_pr_ref_refspec(ThePrHandle)
             dst == refspec_dst(refspec)
             url == unwrap(unwrap(gitremote).url)
             theirs == LabAt(lab_refs, url)
             ok == /\ env
                   /\ is_some(gitremote)
                   /\ dst \in DOMAIN theirs \/ missing_ok IN
         /\ lab_refs' = IF ok /\ dst \in DOMAIN theirs
                          THEN SetRef(lab_refs, url, DelRef(theirs, dst))
                          ELSE lab_refs
         /\ git_calls' = Append(git_calls,
                GitCall("delete_pr_ref", env, ok, [refspec |-> refspec]))
         /\ UNCHANGED <<remotes, refs>>
         /\ GitStep("delete_pr_ref", ok)
    /\ UNCHANGED <<server_vars, find_vars, fork_heads, git_ev, git_handled,
                   lab_before>>

NextGit ==
    \/ \E pr \in GitPullRequests : git_event(pr)
    \/ \E url \in ForkUrls, branch \in GitRefs, oid \in Oids :
           fork_push(url, branch, oid)
    \/ Repository_add_remotes
    \/ Repository_fetch_github_remote
    \/ Repository_create_ref_for_pr
    \/ Repository_push_pr_ref
    \/ Repository_delete_pr_ref

SpecGit == InitGit /\ [][NextGit]_vars

(***************************************************************************)
(* Properties of the git worker.                                           *)
(***************************************************************************)
\* "refs/heads/pr-" + number + "/" + head full name + "/" + head ref
ExpectedRef(pr) ==
    <<"refs/heads/", "pr-", ToString(pr.pull_request.number), "/",
      pr.pull_request.head.repo.full_name[1], "/",
      pr.pull_request.head.repo.full_name[2], "/",
      pr.pull_request.head.ref_key>>
\* the repository on Lab that mirrors RepoA: hub_to_lab takes org/a to grp/b
LabUrl == <<"git@", "gitlab.com", ":", "grp", "/", "b", ".git">>
\* the object id of the payload's mirror ref on Lab, 0 when Lab has none
MirrorOid(lab_state, pr) ==
    IF ExpectedRef(pr) \in DOMAIN LabAt(lab_state, LabUrl)
      THEN LabAt(lab_state, LabUrl)[ExpectedRef(pr)]
      ELSE 0
\* the references that the operations in cs wrote, pushed from, pushed to
\* or deleted
RefsAddressed(cs) ==
    UNION { IF cs[i].op = "create_ref_for_pr" THEN {cs[i].detail.name}
            ELSE IF cs[i].op = "push_pr_ref"
              THEN {refspec_src(cs[i].detail.refspec),
                    refspec_dst(cs[i].detail.refspec)}
            ELSE IF cs[i].op = "delete_pr_ref"
              THEN {refspec_dst(cs[i].detail.refspec)}
            ELSE {} : i \in 1..Len(cs) }
SameIteration(p, q) ==
    /\ p.pull_request.number = q.pull_request.number
    /\ p.pull_request.head.repo.full_name = q.pull_request.head.repo.full_name
    /\ p.pull_request.head.ref_key = q.pull_request.head.ref_key
IsMirror(e) == e.pr.action # "closed"
SamePr(a, b) == PrHandle(a.pr) = PrHandle(b.pr)
\* the object id that the fetch of a mirror handler read from the fork
Fetched(e) == e.calls[2].detail.oid
EnvOk(e) == \A i \in 1..Len(e.calls) : e.calls[i].env

\* C13: the reference written by create_ref_for_pr, both sides of the
\* refspec pushed by push_pr_ref and the reference deleted by delete_pr_ref
\* are the name "refs/heads/pr-" + pr_number + "/" + head_full_name + "/" +
\* gitref of the payload handled; the delete refspec has an empty source;
\* and two payloads with the same pr_number, head_full_name and gitref
\* address the same name.
C13_OneMirrorRef ==
    /\ git_ev # NoPr =>
         /\ RefsAddressed(git_calls) \subseteq {ExpectedRef(git_ev)}
         /\ \A n \in RefsAddressed(git_calls) :
              n[1] = "refs/heads/" /\ n[2] = "pr-"
         /\ \A i \in 1..Len(git_calls) :
              git_calls[i].op = "delete_pr_ref" =>
                  refspec_src(git_calls[i].detail.refspec) = <<>>
    /\ \A i \in 1..Len(hist) :
         RefsAddressed(hist[i].calls) \subseteq {ExpectedRef(hist[i].pr)}
    /\ \A i, j \in 1..Len(hist) :
         SameIteration(hist[i].pr, hist[j].pr) =>
             \A a \in RefsAddressed(hist[i].calls), b \in RefsAddressed(hist[j].calls) :
                 a = b

\* PR 7 of dev/a was mirrored by an "opened" payload and its ref deleted by
\* a "closed" payload: the ref created, pushed and deleted is one name
C13_Witness ==
    /\ Len(hist) = 2
    /\ hist[1].pr.action = "opened" /\ hist[2].pr.action = "closed"
    /\ SameIteration(hist[1].pr, hist[2].pr)
    /\ Len(hist[1].calls) = 4 /\ Len(hist[2].calls) = 2
    /\ RefsAddressed(hist[1].calls) = RefsAddressed(hist[2].calls)
    /\ RefsAddressed(hist[1].calls) =
           {<<"refs/heads/", "pr-", "7", "/", "dev", "/", "a", "/", "feature">>}

Removed(e) ==
    { un \in UNION { {<<u, n>> : n \in DOMAIN e.lab_before[u]} :
                       u \in DOMAIN e.lab_before } :
        un[2] \notin DOMAIN LabAt(e.lab_after, un[1]) }

AddRemotesDone ==
    git_ev # NoPr /\ Len(git_calls) >= 1 /\ git_calls[1].ret = "Ok"

\* C21: once add_remotes of a payload has succeeded, whatever remotes the
\* working repository held before, the remote github-{pr_number} has the
\* payload's fork url and the remote gitlab has git@{host}:{mapped base
\* name}.git; the fetch of the payload reads from the payload's fork url.
C21_AddRemotesResetsUrls ==
    AddRemotesDone =>
        /\ RemoteConfig(remotes,
               <<"github-", ToString(git_ev.pull_request.number)>>).url
             = Some(git_ev.pull_request.head.repo.ssh_url)
        /\ RemoteConfig(remotes, <<"gitlab">>).url = Some(LabUrl)
        /\ \A i \in 1..Len(git_calls) :
             (git_calls[i].op = "fetch_github_remote" /\ git_calls[i].ret = "Ok") =>
                 git_calls[i].detail.url
                     = Some(git_ev.pull_request.head.repo.ssh_url)

\* PR 7 was mirrored from dev's fork, and the next payload of PR 7 names
\* eve's fork: its fetch has read from eve's fork
C21_Witness ==
    /\ Len(hist) >= 1
    /\ hist[Len(hist)].pr.pull_request.number = 7
    /\ hist[Len(hist)].pr.pull_request.head.repo.full_name[1] = "dev"
    /\ hist[Len(hist)].result = "Ok" /\ IsMirror(hist[Len(hist)])
    /\ git_pc = "create_ref_for_pr"
    /\ git_ev.pull_request.number = 7
    /\ git_ev.pull_request.head.repo.full_name[1] = "eve"
    /\ Len(git_calls) = 2
    /\ git_calls[2].detail.url = Some(ForkBy("eve", RepoA).ssh_url)

\* C22: when add_remotes has succeeded for the first payload handled on a
\* fresh clone and again for the next payload with the same handle, the
\* remote configuration (names, urls, fetch and push refspec lists) is the
\* one a single invocation on the fresh clone leaves.
C22_AddRemotesIdempotent ==
    (/\ Len(hist) = 2 /\ git_handled = 2 /\ git_pc = "idle"
     /\ SamePr(hist[1], hist[2])
     /\ hist[1].calls[1].ret = "Ok" /\ hist[2].calls[1].ret = "Ok") =>
        remotes = add_remotes_calls(CloneConfig, PrHandle(hist[1].pr))[5]

\* the reference is a remote-tracking ref of github-{n} or a mirror ref
\* pr-{n}/.. of a PR number other than number
OfOtherPr(name, number) ==
    /\ Len(name) >= 3
    /\ \/ name[1] = "refs/remotes/" /\ name[2] = "github-"
       \/ name[1] = "refs/heads/" /\ name[2] = "pr-"
    /\ name[3] # ToString(number)
\* the references of rs that belong to other PRs are in rs2 as they were
OthersKept(rs, rs2, number) ==
    \A name \in DOMAIN rs :
        OfOtherPr(name, number) => (name \in DOMAIN rs2 /\ rs2[name] = rs[name])
\* the operation that a step of the handler has just performed
LastCall == git_calls'[Len(git_calls')]

\* C25: two payloads of the base repository with different PR numbers have
\* different github remote names, different remote-tracking refs and
\* different mirror refs; and every operation performed for a payload
\* reads only remote-tracking and mirror refs of its own PR number, and
\* leaves the remote-tracking refs and the mirror refs of every other PR,
\* in the working repository and on Lab, as they were.
C25_PrsKeptApart ==
    /\ [](\A p, q \in GitPullRequests :
            p.pull_request.number # q.pull_request.number =>
                /\ PrHandle(p).github_remote # PrHandle(q).github_remote
                /\ github_ref(PrHandle(p)) # github_ref(PrHandle(q))
                /\ gitlab_ref(PrHandle(p)) # gitlab_ref(PrHandle(q)))
    /\ [][(git_ev # NoPr /\ git_ev' = git_ev
             /\ Len(git_calls') = Len(git_calls) + 1) =>
            /\ OthersKept(refs, refs', git_ev.pull_request.number)
            /\ \A u \in DOMAIN lab_refs :
                 OthersKept(lab_refs[u], LabAt(lab_refs', u),
                            git_ev.pull_request.number)
            /\ LastCall.op = "create_ref_for_pr" =>
                 /\ ~OfOtherPr(LastCall.detail.from, git_ev.pull_request.number)
                 /\ ~OfOtherPr(LastCall.detail.name, git_ev.pull_request.number)
            /\ LastCall.op \in {"push_pr_ref", "delete_pr_ref"} =>
                 /\ ~OfOtherPr(refspec_src(LastCall.detail.refspec),
                               git_ev.pull_request.number)
                 /\ ~OfOtherPr(refspec_dst(LastCall.detail.refspec),
                               git_ev.pull_request.number)]_vars

\* PR 7 was mirrored at commit 1, then PR 8 of the same fork and branch was
\* mirrored at commit 2: Lab holds both mirror refs, each at its commit
C25_Witness ==
    /\ Len(hist) = 2
    /\ hist[1].pr.pull_request.number = 7 /\ hist[2].pr.pull_request.number = 8
    /\ hist[1].pr.pull_request.head.repo = hist[2].pr.pull_request.head.repo
    /\ IsMirror(hist[1]) /\ IsMirror(hist[2])
    /\ hist[1].result = "Ok" /\ hist[2].result = "Ok"
    /\ MirrorOid(lab_refs, hist[1].pr) = 1
    /\ MirrorOid(lab_refs, hist[2].pr) = 2
    /\ refs[<<"refs/remotes/", "github-", "7", "/", "feature">>] = 1
    /\ refs[<<"refs/remotes/", "github-", "8", "/", "feature">>] = 2

(***************************************************************************)
(* find_pipeline_id against a pipeline list that may have no end: the      *)
(* pages past MaxPages are all empty, or all full of pipelines of other    *)
(* commits.  The future is polled until it completes, so a loop round      *)
(* that can be taken is taken.                                             *)
(***************************************************************************)
LabRests == {EmptyPage, [ok |-> TRUE, head |-> <<>>, len |-> PerPage]}
\* Lab's answers by what matters to the loop: an error, or a short or full
\* page that starts with nothing, with a pipeline of the commit, or with a
\* record of the commit that has no id
LiveHeads ==
    {<<>>, <<[id |-> Some(7), sha |-> Some("abc")]>>,
     <<[id |-> None, sha |-> Some("abc")]>>}
LiveResponses ==
    { [ok |-> FALSE, head |-> <<>>, len |-> 0] }
    \cup { [ok |-> TRUE, head |-> h, len |-> Len(h)] : h \in LiveHeads }
    \cup { [ok |-> TRUE, head |-> h, len |-> PerPage] : h \in LiveHeads }

InitFindLive ==
    /\ config = DefaultConfig
    /\ hub_to_lab = DefaultHubToLab
    /\ InitServer
    /\ InitGitOff
    /\ lab \in [1..MaxPages -> LiveResponses]
    /\ lab_rest \in LabRests
    /\ fp_pc = "loop"
    /\ page = 1
    /\ result_len = PerPage
    /\ requested = <<>>
    /\ per_page = <<>>
    /\ fp_result = [kind |-> "None", id |-> 0]

SpecFindLive == InitFindLive /\ [][NextFind]_vars /\ WF_vars(NextFind)

\* the answer ends the search: it fails, holds a matching record, or has
\* fewer than 100 records
Stops(resp) == ~resp.ok \/ HasMatch(resp) \/ resp.len < PerPage
LabStops == \E p \in 1..(MaxPages + 1) : Stops(get_pipelines(p))
FirstStop ==
    CHOOSE p \in 1..(MaxPages + 1) :
        /\ Stops(get_pipelines(p))
        /\ \A q \in 1..(p - 1) : ~Stops(get_pipelines(q))

\* C23: when some page of Lab's answers fails, holds a matching record or
\* has fewer than 100 records, find_pipeline_id returns, having requested
\* no page past the first such page (one page beyond the last full page
\* when the list is finite); when every page Lab returns holds exactly 100
\* records and none matches, it never returns.
C23_SearchTerminates ==
    /\ (fp_pc = "loop" /\ LabStops) ~> (fp_pc = "done")
    /\ [](LabStops => Len(requested) <= FirstStop)
    /\ [](fp_pc = "done" => (LabStops /\ Len(requested) = FirstStop))
    /\ [](~LabStops => fp_pc # "done")

\* a finite list whose pages are all full and without a match: the search
\* has requested one page beyond the last and returned NotFound
C23_Witness ==
    /\ fp_pc = "done"
    /\ fp_result.kind = "NotFound"
    /\ lab_rest = EmptyPage
    /\ \A p \in 1..MaxPages : ~Stops(lab[p])
    /\ Len(requested) = MaxPages + 1

(***************************************************************************)
(* The two mutexes.  The handlers of Spec run with get_gitlab_repo_name    *)
(* taking and dropping the HUB_TO_LAB mutex as steps of their own: once in *)
(* add_remotes, which runs under the REPOS mutex, and twice in             *)
(* handle_retry_command before the pipeline search.  A worker thread that  *)
(* can take a step takes it.                                               *)
(***************************************************************************)
\* deliveries handled by the two threads together
MaxLockEvents == 2

\* fork PRs of both base repositories, and retry commands on a PR
LockDeliveries ==
    { [event_type |-> "pull_request", body |-> [decodes |-> TRUE, pr |-> pr]] :
          pr \in { q \in PullRequests :
                     is_fork(q) /\ q.action \in {"opened", "closed"} } }
    \cup { [event_type |-> "issue_comment",
            body |-> [decodes |-> TRUE,
                      ic |-> IssueComment(TRUE, [at |-> "bot", args |-> <<"retry">>],
                                          <<"org", "a">>)]] }

InitLock ==
    /\ config = DefaultConfig
    /\ hub_to_lab = DefaultHubToLab
    /\ InitServer
    /\ InitFindOff
    /\ InitGitOff

\* service.rs github_event, for a handler that counts its name lookups
lock_event(t, e) ==
    /\ pc[t] \in {"idle", "done"}
    /\ handled < MaxLockEvents
    /\ handled' = handled + 1
    /\ ev' = [ev EXCEPT ![t] = e]
    /\ pc' = [pc EXCEPT ![t] = "handle_event_body"]
    /\ clone_res' = [clone_res EXCEPT ![t] = "None"]
    /\ calls' = [calls EXCEPT ![t] = <<>>]
    /\ result' = [result EXCEPT ![t] = "None"]
    /\ response' = [response EXCEPT ![t] = NoResponse]
    /\ pipeline_id' = [pipeline_id EXCEPT ![t] = 0]
    /\ names' = [names EXCEPT ![t] = 0]
    /\ UNCHANGED <<config, hub_to_lab, hub_to_lab_lock, shared, find_vars, git_vars>>

\* where a handler calls get_gitlab_repo_name next: add_remotes formats
\* gitlab_url with it, handle_retry_command calls it for project and again
\* for the argument of find_pipeline_id
calls_get_gitlab_repo_name(t) ==
    \/ pc[t] = "add_remotes" /\ names[t] = 0
    \/ pc[t] = "find_pipeline_id" /\ names[t] < 2

\* the MutexGuard hub_to_lab_lock goes out of scope when the function returns
hub_to_lab_lock_kept(t) == t
hub_to_lab_lock_dropped(t) == NoThread

\* get_gitlab_repo_name: config::HUB_TO_LAB.lock().unwrap()
get_gitlab_repo_name_lock(t) ==
    /\ calls_get_gitlab_repo_name(t)
    /\ hub_to_lab_lock = NoThread
    /\ hub_to_lab_lock' = t
    /\ UNCHANGED <<config, hub_to_lab, names, shared, handled, pc, ev, clone_res,
                   calls, result, response, pipeline_id, find_vars, git_vars>>

\* get_gitlab_repo_name: the lookup, and the return
get_gitlab_repo_name_return(t) ==
    /\ hub_to_lab_lock = t
    /\ calls_get_gitlab_repo_name(t)
    /\ hub_to_lab_lock' = hub_to_lab_lock_dropped(t)
    /\ names' = [names EXCEPT ![t] = @ + 1]
    /\ UNCHANGED <<config, hub_to_lab, shared, handled, pc, ev, clone_res,
                   calls, result, response, pipeline_id, find_vars, git_vars>>

\* add_remotes: it fails before gitlab_url is formatted, or it runs on
\* after get_gitlab_repo_name has returned
add_remotes_named(t) ==
    /\ hub_to_lab_lock # t
    /\ add_remotes(t)
    /\ names[t] = 0 => pc'[t] = "handle_pr"

\* find_pipeline_id is called with the name looked up twice
search_pipeline_named(t) ==
    /\ names[t] = 2
    /\ search_pipeline(t)

LockStep(t) ==
    \/ handle_pull_request(t)
    \/ lock_repos(t)
    \/ entry_or_insert(t)
    \/ get_gitlab_repo_name_lock(t)
    \/ get_gitlab_repo_name_return(t)
    \/ add_remotes_named(t)
    \/ fetch_github_remote(t)
    \/ create_ref_for_pr(t)
    \/ push_pr_ref(t)
    \/ delete_pr_ref(t)
    \/ handle_pr(t)
    \/ handle_issue_comment(t)
    \/ get_sha(t)
    \/ search_pipeline_named(t)
    \/ retry_pipeline(t)
    \/ confirm(t)
    \/ handle_ic(t)

NextLock ==
    \/ \E t \in Threads, e \in LockDeliveries : lock_event(t, e)
    \/ \E t \in Threads : LockStep(t)

SpecLock ==
    InitLock /\ [][NextLock]_vars /\ \A t \in Threads : WF_vars(LockStep(t))

Busy(t) == pc[t] \notin {"idle", "done"}
\* the thread is blocked in REPOS.lock() / HUB_TO_LAB.lock()
WaitsForRepos(t) == AtLock(t)
WaitsForHubToLab(t) ==
    calls_get_gitlab_repo_name(t) /\ hub_to_lab_lock # t

\* C24: no deadlock: while a handler runs, some thread can take a step;
\* the thread holding HUB_TO_LAB holds it alone or under REPOS, and requests
\* no lock while it holds it; a handler that has returned holds neither
\* lock, whether it returned Ok or Err; and every handler returns.
C24_NoDeadlockLocksReleased ==
    /\ []((\E t \in Threads : Busy(t)) => ENABLED (\E t \in Threads : LockStep(t)))
    /\ [](\A t \in Threads :
            hub_to_lab_lock = t =>
                /\ ~WaitsForRepos(t) /\ ~WaitsForHubToLab(t)
                /\ pc[t] = "add_remotes" => repos_lock = t
                /\ pc[t] = "find_pipeline_id" => repos_lock # t)
    /\ [](\A t \in Threads :
            pc[t] \in {"idle", "handle_event_body", "handle_pr", "handle_ic", "done"}
                => (repos_lock # t /\ hub_to_lab_lock # t))
    /\ \A t \in Threads :
         Busy(t) ~> (pc[t] = "done" /\ repos_lock # t /\ hub_to_lab_lock # t)

\* t1 holds REPOS and HUB_TO_LAB inside add_remotes while t2, in
\* handle_retry_command, waits for HUB_TO_LAB
C24_Witness ==
    /\ repos_lock = "t1" /\ hub_to_lab_lock = "t1" /\ pc["t1"] = "add_remotes"
    /\ pc["t2"] = "find_pipeline_id" /\ WaitsForHubToLab("t2")

(***************************************************************************)
(* The relay hears its own comments: every comment it has posted on the PR *)
(* comes back from Hub as an issue_comment delivery.  One worker thread    *)
(* handles the user's comment and then the deliveries of the comments the  *)
(* relay posted; calls[RelayThread] is kept across these deliveries.       *)
(***************************************************************************)
\* deliveries followed: the user's comment and the comments coming back
MaxLoopEvents == 3

\* the comment text as the command parser sees it (spec section 4.D): the
\* name of a leading "@name", and the words after it
as_comment(text) ==
    IF Len(text) >= 2 /\ text[1] = "@"
      THEN [at |-> text[2], args |-> SubSeq(text, 3, Len(text))]
      ELSE [at |-> "", args |-> text]

\* the comments the relay has posted on Hub
Posted ==
    SelectSeq(calls[RelayThread],
              LAMBDA c : c.op = "create_issue_comment" /\ c.ret = "Ok")

LoopDeliveries ==
    { [event_type |-> "issue_comment", body |-> [decodes |-> TRUE, ic |-> ic]] :
          ic \in IssueComments }

InitLoop ==
    /\ config \in Configs
    /\ hub_to_lab = DefaultHubToLab
    /\ InitServer
    /\ InitFindOff
    /\ InitGitOff

\* a user comments on the PR
user_comment(e) ==
    /\ handled = 0
    /\ github_event(RelayThread, e)

\* Hub delivers the next comment that the relay posted
own_comment ==
    /\ pc[RelayThread] = "done"
    /\ handled >= 1
    /\ handled < MaxLoopEvents
    /\ handled <= Len(Posted)
    /\ handled' = handled + 1
    /\ ev' = [ev EXCEPT ![RelayThread] =
                 [event_type |-> "issue_comment",
                  body |-> [decodes |-> TRUE,
                            ic |-> IssueComment(TRUE, as_comment(Posted[handled].arg),
                                                Posted[handled].project)]]]
    /\ pc' = [pc EXCEPT ![RelayThread] = "handle_event_body"]
    /\ result' = [result EXCEPT ![RelayThread] = "None"]
    /\ response' = [response EXCEPT ![RelayThread] = NoResponse]
    /\ pipeline_id' = [pipeline_id EXCEPT ![RelayThread] = 0]
    /\ UNCHANGED <<config, hub_to_lab, lock_vars, shared, clone_res, calls,
                   find_vars, git_vars>>

NextLoop ==
    \/ \E e \in LoopDeliveries : user_comment(e)
    \/ own_comment
    \/ handle_issue_comment(RelayThread)
    \/ reply_unknown(RelayThread)
    \/ get_sha(RelayThread)
    \/ search_pipeline(RelayThread)
    \/ retry_pipeline(RelayThread)
    \/ confirm(RelayThread)
    \/ handle_ic(RelayThread)

SpecLoop == InitLoop /\ [][NextLoop]_vars

\* C26: a user's comment leads to at most one comment of the relay; once
\* that comment has come back as an issue_comment delivery, no call is made
\* any more, to Hub or to Lab, and its handler ends with an error that is
\* only logged.
C26_NoFeedbackLoop ==
    /\ [](Len(Posted) <= 1)
    /\ [](\A i \in 1..Len(calls[RelayThread]) :
            calls[RelayThread][i].op = "create_issue_comment" =>
                as_comment(calls[RelayThread][i].arg).at # BotName)
    /\ []((handled >= 2 /\ pc[RelayThread] \in {"handle_ic", "done"}) =>
              result[RelayThread] = "Err")
    /\ [][handled >= 2 => calls' = calls]_vars

\* the retry confirmation came back and its handler has returned: the one
\* comment posted is still the only call since the retry
C26_Witness ==
    /\ handled = 2
    /\ pc[RelayThread] = "done"
    /\ Len(Posted) = 1
    /\ Len(Posted[1].arg) = 6
    /\ ev[RelayThread].body.ic.comment.body.at = ""
    /\ result[RelayThread] = "Err"
    /\ calls[RelayThread][Len(calls[RelayThread])] = Posted[1]

====
